---- MODULE Spec2Model ----
(***************************************************************************)
(* Model of the rule combinators of src/parse/rule.rs (crate abnf):        *)
(* group, opt_group, repeat, at_least_once and optional, driven over a     *)
(* BytesMut cursor by parse closures, combine closures and an error        *)
(* adapter.  The cursor is modelled by the sequence of bytes that remain   *)
(* in the buffer; a closure invocation is one step that picks the          *)
(* closure's outcome and the cursor state it leaves behind.                *)
(***************************************************************************)
EXTENDS Integers, Sequences, FiniteSets, TLC

\* Longest buffer handed to a call.
MaxLen == 3
\* Most invocations of the element parser within one repetition call.
MaxIter == 3
\* Most sub-rules of a concatenation.
MaxRules == 2
\* Most attempts the driver makes at one call.
MaxAttempts == 2
\* The count of the counting closure (six_rule's 6, scaled to MaxLen).
Count == 2

Byte == {"1", "2", "a"}
Digit == {"1", "2"}

\* Payloads of the closures' type parameters: R (element), E (element
\* error), S (combine result), F (combine / adapted error).
ElemVals == {"u", "v"}
ParseErrs == {"e1", "e2"}
CombineVals == {"s"}
CombineErrs == {"f1", "f2"}
AdaptedErrs == {"g1", "g2"}

Buffers == UNION {[1..n -> Byte] : n \in 0..MaxLen}

--------------------------------------------------------------------------
\* Poll<T, E> = Result<Async<T>, E>; opt tells Some from None when T is an
\* Option.  Result<R, E> shares the Err constructor and adds Ok.
Ready(v) == [kind |-> "Ready", opt |-> "-", val |-> v]
ReadySome(v) == [kind |-> "Ready", opt |-> "Some", val |-> v]
ReadyNone == [kind |-> "Ready", opt |-> "None", val |-> "-"]
NotReady == [kind |-> "NotReady", opt |-> "-", val |-> "-"]
Err(e) == [kind |-> "Err", opt |-> "-", val |-> e]
Ok(v) == [kind |-> "Ok", opt |-> "-", val |-> v]
NoOutcome == [kind |-> "none", opt |-> "-", val |-> "-"]

\* Every state a closure holding &mut BytesMut may leave the cursor in:
\* any contiguous part of what was there (advance, split_to, truncate,
\* clear).
Moves(b) == {SubSeq(b, i, j) : i \in 1..(Len(b) + 1), j \in 0..Len(b)}

\* The single-digit rule of the digit-repetition scenario: drains one
\* digit, fails on any other byte, is undecided on an empty buffer.
digit(b) ==
    IF b = <<>> THEN [out |-> NotReady, buf |-> b]
    ELSE IF Head(b) \in Digit THEN [out |-> Ready(Head(b)), buf |-> Tail(b)]
    ELSE [out |-> Err("e1"), buf |-> b]

PollOutcomes ==
    {Ready(v) : v \in ElemVals} \cup {NotReady} \cup {Err(e) : e \in ParseErrs}

PollOptOutcomes ==
    {ReadySome(v) : v \in ElemVals} \cup {ReadyNone, NotReady}
        \cup {Err(e) : e \in ParseErrs}

\* What one invocation of a parsing closure of kind pk may do on cursor b.
\*   "any"     an arbitrary closure, free to break the draining rules
\*   "obeying" an arbitrary closure that follows the rules of the module
\*             docs: drains on success only
\*   "digit"   the single-digit rule
\*   "option"  an arbitrary closure producing Poll<Option<T>, E>
\*   "progress" an arbitrary closure that drains at least one byte
\*             whenever it succeeds
ParseSteps(pk, b) ==
    CASE pk = "any" ->
            {[out |-> o, buf |-> c] : o \in PollOutcomes, c \in Moves(b)}
      [] pk = "obeying" ->
            {[out |-> o, buf |-> c] : o \in {Ready(v) : v \in ElemVals},
                                      c \in {SubSeq(b, i, Len(b)) : i \in 1..(Len(b) + 1)}}
            \cup {[out |-> o, buf |-> b] :
                     o \in {NotReady} \cup {Err(e) : e \in ParseErrs}}
      [] pk = "digit" -> {digit(b)}
      [] pk = "option" ->
            {[out |-> o, buf |-> c] : o \in PollOptOutcomes, c \in Moves(b)}
      [] pk = "progress" ->
            {[out |-> o, buf |-> c] : o \in {Ready(v) : v \in ElemVals},
                                      c \in {m \in Moves(b) : Len(m) < Len(b)}}
            \cup {[out |-> o, buf |-> c] :
                     o \in {NotReady} \cup {Err(e) : e \in ParseErrs},
                     c \in Moves(b)}

\* What one invocation of a combine closure of kind ck may do, given the
\* item and its captured vector.
\*   "any"        an arbitrary closure
\*   "accumulate" the closure of repeat_rule: push and go on, stop on Err
\*   "stops"      an arbitrary closure that never goes on when given Err
\*   "count"      the closure of six_rule, for Count elements: push, be
\*                done at the Count-th, hand an Err through
\*   "accumulate_kept" the closure of repeat_rule pushing to a vector its
\*                caller holds across attempts
CombineSteps(ck, it, vec) ==
    CASE ck = "any" ->
            {[out |-> o, acc |-> vec] :
                o \in {Ready(s) : s \in CombineVals} \cup {NotReady}
                        \cup {Err(f) : f \in CombineErrs}}
      [] ck \in {"accumulate", "accumulate_kept"} ->
            IF it.kind = "Ok"
            THEN {[out |-> NotReady, acc |-> Append(vec, it.val)]}
            ELSE {[out |-> Ready("()"), acc |-> vec]}
      [] ck = "count" ->
            IF it.kind = "Ok"
            THEN {[out |-> IF Len(vec) + 1 = Count THEN Ready("()")
                           ELSE NotReady,
                   acc |-> Append(vec, it.val)]}
            ELSE {[out |-> Err(it.val), acc |-> vec]}
      [] ck = "stops" ->
            {[out |-> o, acc |-> vec] :
                o \in {Ready(s) : s \in CombineVals}
                        \cup {Err(f) : f \in CombineErrs}
                        \cup (IF it.kind = "Ok" THEN {NotReady} ELSE {})}

\* The closures a repetition is driven with: arbitrary ones, the
\* single-digit rule with the accumulating closure of repeat_rule, and
\* arbitrary ones that drain on success and stop on failure.
ClosurePairs ==
    {<<"any", "any">>, <<"digit", "accumulate">>, <<"progress", "stops">>,
     <<"digit", "count">>, <<"digit", "accumulate_kept">>}

\* The parsing closures that cannot succeed on an empty buffer; a loop over
\* the others is followed for MaxIter elements only.
Draining == {"digit", "progress"}

\* The error adapters handed to at_least_once.
Adapters ==
    {[e \in ParseErrs |-> IF e = "e1" THEN "g1" ELSE "g2"],
     [e \in ParseErrs |-> "g2"]}
NoAdapter == [e \in ParseErrs |-> "g1"]

--------------------------------------------------------------------------
\* The pure parts of the combinators.

\* Faults: group without `| Err(_)`, without `Ok(Async::NotReady) |`.
group_keeps_on_err(b, orig, r) ==
    IF r.kind = "NotReady" THEN orig ELSE b

group_keeps_on_not_ready(b, orig, r) ==
    IF r.kind = "Err" THEN orig ELSE b

\* Fault: group restoring the snapshot whatever res is.
group_rewinds_always(b, orig, r) == orig

\* group, the match on res: the cursor group leaves behind.
group(b, orig, r) ==
    IF r.kind = "NotReady" \/ r.kind = "Err" THEN orig ELSE b

\* Fault: opt_group matching Ok(Async::Ready(_)) as group does.
opt_group_commits_none(b, orig, r) ==
    IF r.kind = "Ready" THEN b ELSE orig

\* Fault: opt_group rewinding on Ready(None) and NotReady but not on Err.
opt_group_keeps_on_err(b, orig, r) ==
    IF (r.kind = "Ready" /\ r.opt = "Some") \/ r.kind = "Err" THEN b ELSE orig

\* opt_group, the match on res.
opt_group(b, orig, r) ==
    IF r.kind = "Ready" /\ r.opt = "Some" THEN b ELSE orig

\* Fault: optional handing the error on instead of None.
optional_keeps_err(r) ==
    CASE r.kind = "NotReady" -> NotReady
      [] r.kind = "Ready" -> ReadySome(r.val)
      [] r.kind = "Err" -> r

\* optional, the match on parse(buf).
optional(r) ==
    CASE r.kind = "NotReady" -> NotReady
      [] r.kind = "Ready" -> ReadySome(r.val)
      [] r.kind = "Err" -> ReadyNone

\* try_result!: NotReady returns from the enclosing closure, anything else
\* becomes a Result.
try_result_returns(r) == r.kind = "NotReady"
try_result(r) == IF r.kind = "Ready" THEN Ok(r.val) ELSE r

\* try_ready!: anything but Ready returns from the enclosing closure.
try_ready_returns(r) == r.kind # "Ready"

--------------------------------------------------------------------------
VARIABLES
    buf,        \* the cursor: the bytes left in the BytesMut
    orig_buf,   \* the snapshots of the active group/opt_group calls
    pc,         \* where the running call is
    call,       \* the running top-level call and its closures
    res,        \* group's res / the value the grouped closure returns
    item,       \* the Result handed to combine
    sub,        \* outcome of the sub-rule a concatenation just ran
    idx,        \* the sub-rule a concatenation is at
    ret,        \* what the top-level call returned
    acc,        \* the vector captured by the combine closure
    obs         \* history: what was invoked, with what, and when

vars == <<buf, orig_buf, pc, call, res, item, sub, idx, ret, acc, obs>>

NoCall == [fn |-> "none", pk |-> "any", ck |-> "any", rules |-> <<>>,
           error |-> NoAdapter]

\* entry: the cursor when the call began; nP, nC, nE, nR: invocations of
\* parse, combine, the error adapter and a concatenation's sub-rules;
\* firstP: outcome of a repetition's first invocation of parse;
\* lastP: latest outcome of parse, lastPbuf: the cursor
\* it left, lastPmoved: whether it changed the cursor; lastArg, lastC: latest argument and outcome of combine,
\* argOf: the outcome of parse that argument was made from; errArg: the
\* adapter's argument; failedAt, failOut: the first sub-rule that did not
\* complete and its outcome; consumed: an accepted element or completed
\* sub-rule had moved the cursor; attempt: which attempt at the call this
\* is, prev: the cursor the attempt before began on, carried: the captured
\* vector as this attempt found it.
NoObs == [entry |-> <<>>, nP |-> 0, nC |-> 0, nE |-> 0, nR |-> 0,
          firstP |-> NoOutcome, lastP |-> NoOutcome, lastPbuf |-> <<>>,
          lastPmoved |-> FALSE,
          lastArg |-> NoOutcome, argOf |-> NoOutcome, lastC |-> NoOutcome,
          errArg |-> "-", failedAt |-> 0, failOut |-> NoOutcome,
          consumed |-> FALSE,
          attempt |-> 1, prev |-> <<>>, carried |-> <<>>]

Init ==
    /\ buf \in Buffers
    /\ orig_buf = <<>>
    /\ pc = "idle"
    /\ call = NoCall
    /\ res = NoOutcome
    /\ item = NoOutcome
    /\ sub = NoOutcome
    /\ idx = 0
    /\ ret = NoOutcome
    /\ acc = <<>>
    /\ obs = NoObs

\* History of one invocation of the parsing closure.
ObsParse(s) ==
    [obs EXCEPT !.nP = @ + 1, !.lastP = s.out, !.lastPbuf = s.buf,
                !.lastPmoved = (s.buf # buf)]

\* History of one invocation of the element parser of a repetition.
ObsItem(s) ==
    [ObsParse(s) EXCEPT !.firstP = IF obs.nP = 0 THEN s.out ELSE @]

\* History of one sub-rule of a concatenation handing back its outcome.
ObsSub(o, out) ==
    IF out.kind # "Ready" /\ o.failedAt = 0
    THEN [o EXCEPT !.failedAt = idx, !.failOut = out]
    ELSE o

\* Fault: a snapshot that is one slot shared by all active group calls.
Clone_shared == orig_buf' = [i \in 1..(Len(orig_buf) + 1) |-> buf]

\* let orig_buf = buf.clone();
Clone == orig_buf' = Append(orig_buf, buf)

\* The driver starts a call on the cursor as it stands.
Start(c, start_pc) ==
    /\ pc = "idle"
    /\ call' = c
    /\ pc' = start_pc
    /\ obs' = [NoObs EXCEPT !.entry = buf]
    /\ acc' = <<>>
    /\ UNCHANGED <<buf, res, item, sub, idx, ret>>

\* A call (or sub-rule) hands its outcome to whoever called it: the driver,
\* or the closure of a concatenation.
Return(out, depth, o) ==
    IF depth > 0
    THEN /\ sub' = out
         /\ pc' = "concat_try"
         /\ obs' = ObsSub(o, out)
         /\ UNCHANGED ret
    ELSE /\ ret' = out
         /\ pc' = "done"
         /\ obs' = o
         /\ UNCHANGED sub

--------------------------------------------------------------------------
\* The calls the driver makes.

\* group(buf, parse)
call_group ==
    \E pk \in {"any", "obeying", "digit"} :
        /\ Start([NoCall EXCEPT !.fn = "group", !.pk = pk], "group_parse")
        /\ Clone

\* opt_group(buf, parse)
call_opt_group ==
    /\ Start([NoCall EXCEPT !.fn = "opt_group", !.pk = "option"],
             "opt_group_parse")
    /\ Clone

\* repeat(buf, parse, combine): enters group with the loop as its closure.
call_repeat ==
    \E cl \in ClosurePairs :
        /\ Start([NoCall EXCEPT !.fn = "repeat", !.pk = cl[1], !.ck = cl[2]],
                 "repeat_parse")
        /\ Clone

\* at_least_once(buf, parse, combine, error): enters group likewise.
call_at_least_once ==
    \E cl \in ClosurePairs, ad \in Adapters :
        /\ Start([NoCall EXCEPT !.fn = "at_least_once", !.pk = cl[1],
                                !.ck = cl[2], !.error = ad],
                 "at_least_once_first")
        /\ Clone

\* optional(buf, parse): no snapshot is taken.
call_optional ==
    \E pk \in {"any", "obeying", "digit"} :
        /\ Start([NoCall EXCEPT !.fn = "optional", !.pk = pk],
                 "optional_parse")
        /\ UNCHANGED orig_buf

--------------------------------------------------------------------------
\* group: let res = parse(buf);
group_parse ==
    /\ pc = "group_parse"
    /\ \E s \in ParseSteps(call.pk, buf) :
        /\ buf' = s.buf
        /\ res' = s.out
        /\ obs' = ObsParse(s)
    /\ pc' = "group_match"
    /\ UNCHANGED <<orig_buf, call, item, sub, idx, ret, acc>>

\* Fault: a rewind that also puts the captured vector back as the call
\* found it.
group_match_restores_captured ==
    /\ pc = "group_match"
    /\ buf' = group(buf, orig_buf[Len(orig_buf)], res)
    /\ acc' = IF res.kind \in {"NotReady", "Err"} THEN obs.carried ELSE acc
    /\ orig_buf' = SubSeq(orig_buf, 1, Len(orig_buf) - 1)
    /\ Return(res, Len(orig_buf) - 1, obs)
    /\ UNCHANGED <<call, res, item, idx>>

\* group: match res { Ok(Async::NotReady) | Err(_) => *buf = orig_buf, .. }
\* and return res.  Ends repeat and at_least_once too, which run their loop
\* as group's closure.
group_match ==
    /\ pc = "group_match"
    /\ buf' = group(buf, orig_buf[Len(orig_buf)], res)
    /\ orig_buf' = SubSeq(orig_buf, 1, Len(orig_buf) - 1)
    /\ Return(res, Len(orig_buf) - 1, obs)
    /\ UNCHANGED <<call, res, item, idx, acc>>

\* opt_group: let res = parse(buf);
opt_group_parse ==
    /\ pc = "opt_group_parse"
    /\ \E s \in ParseSteps(call.pk, buf) :
        /\ buf' = s.buf
        /\ res' = s.out
        /\ obs' = ObsParse(s)
    /\ pc' = "opt_group_match"
    /\ UNCHANGED <<orig_buf, call, item, sub, idx, ret, acc>>

\* opt_group: match res { Ok(Async::Ready(Some(_))) => { }, _ => rewind }
opt_group_match ==
    /\ pc = "opt_group_match"
    /\ buf' = opt_group(buf, orig_buf[Len(orig_buf)], res)
    /\ orig_buf' = SubSeq(orig_buf, 1, Len(orig_buf) - 1)
    /\ Return(res, Len(orig_buf) - 1, obs)
    /\ UNCHANGED <<call, res, item, idx, acc>>

\* Fault: optional run under a rewind of its own, as group would.
optional_parse_rewinds ==
    /\ pc = "optional_parse"
    /\ \E s \in ParseSteps(call.pk, buf) :
        /\ buf' = IF s.out.kind = "Ready" THEN s.buf ELSE buf
        /\ Return(optional(s.out), Len(orig_buf), ObsParse(s))
    /\ UNCHANGED <<orig_buf, call, res, item, idx, acc>>

\* optional: match parse(buf) { .. }
optional_parse ==
    /\ pc = "optional_parse"
    /\ \E s \in ParseSteps(call.pk, buf) :
        /\ buf' = s.buf
        /\ Return(optional(s.out), Len(orig_buf), ObsParse(s))
    /\ UNCHANGED <<orig_buf, call, res, item, idx, acc>>

--------------------------------------------------------------------------
\* Fault: the loop returning parse's Err as try_ready! would, instead of
\* handing it to combine.
ParseItem_returns_err(pc_combine) ==
    /\ obs.nP < MaxIter
    /\ \E s \in ParseSteps(call.pk, buf) :
        /\ buf' = s.buf
        /\ obs' = ObsItem(s)
        /\ IF s.out.kind # "Ready"
           THEN /\ res' = s.out
                /\ pc' = "group_match"
                /\ UNCHANGED item
           ELSE /\ item' = Ok(s.out.val)
                /\ pc' = pc_combine
                /\ UNCHANGED res
    /\ UNCHANGED <<orig_buf, call, sub, idx, ret, acc>>

\* Fault: the element parsed on a copy, the cursor itself left behind.
ParseItem_keeps_cursor(pc_combine) ==
    /\ call.pk \in Draining \/ obs.nP < MaxIter
    /\ \E s \in ParseSteps(call.pk, buf) :
        /\ buf' = buf
        /\ obs' = ObsItem(s)
        /\ IF try_result_returns(s.out)
           THEN /\ res' = NotReady
                /\ pc' = "group_match"
                /\ UNCHANGED item
           ELSE /\ item' = try_result(s.out)
                /\ pc' = pc_combine
                /\ UNCHANGED res
    /\ UNCHANGED <<orig_buf, call, sub, idx, ret, acc>>

\* One turn of `let item = try_result!(parse(buf));`: on NotReady the loop
\* closure returns NotReady to group, otherwise item goes to combine at
\* pc_combine.
ParseItem(pc_combine) ==
    /\ call.pk \in Draining \/ obs.nP < MaxIter
    /\ \E s \in ParseSteps(call.pk, buf) :
        /\ buf' = s.buf
        /\ obs' = ObsItem(s)
        /\ IF try_result_returns(s.out)
           THEN /\ res' = NotReady
                /\ pc' = "group_match"
                /\ UNCHANGED item
           ELSE /\ item' = try_result(s.out)
                /\ pc' = pc_combine
                /\ UNCHANGED res
    /\ UNCHANGED <<orig_buf, call, sub, idx, ret, acc>>

\* Fault: the loop left on Ready without handing the result back.
CombineItem_drops_result(pc_parse) ==
    /\ \E c \in CombineSteps(call.ck, item, acc) :
        /\ acc' = c.acc
        /\ obs' = [obs EXCEPT !.nC = @ + 1, !.lastArg = item,
                              !.argOf = obs.lastP, !.lastC = c.out]
        /\ IF c.out.kind = "NotReady"
           THEN /\ pc' = pc_parse
                /\ UNCHANGED res
           ELSE /\ res' = IF c.out.kind = "Ready" THEN NotReady ELSE c.out
                /\ pc' = "group_match"
    /\ UNCHANGED <<buf, orig_buf, call, item, sub, idx, ret>>

\* Fault: the loop going round on Ready as it does on NotReady.
CombineItem_ignores_ready(pc_parse) ==
    /\ \E c \in CombineSteps(call.ck, item, acc) :
        /\ acc' = c.acc
        /\ obs' = [obs EXCEPT !.nC = @ + 1, !.lastArg = item,
                              !.argOf = obs.lastP, !.lastC = c.out]
        /\ IF c.out.kind # "Err"
           THEN /\ pc' = pc_parse
                /\ UNCHANGED res
           ELSE /\ res' = c.out
                /\ pc' = "group_match"
    /\ UNCHANGED <<buf, orig_buf, call, item, sub, idx, ret>>

\* One turn of `match combine(item) { .. }`: Ready and Err return from the
\* loop closure to group, NotReady goes round to pc_parse.
CombineItem(pc_parse) ==
    /\ \E c \in CombineSteps(call.ck, item, acc) :
        /\ acc' = c.acc
        /\ obs' = [obs EXCEPT !.nC = @ + 1, !.lastArg = item,
                              !.argOf = obs.lastP, !.lastC = c.out,
                              !.consumed = @ \/ (c.out.kind = "NotReady"
                                                 /\ item.kind = "Ok"
                                                 /\ buf # obs.entry)]
        /\ IF c.out.kind = "NotReady"
           THEN /\ pc' = pc_parse
                /\ UNCHANGED res
           ELSE /\ res' = c.out
                /\ pc' = "group_match"
    /\ UNCHANGED <<buf, orig_buf, call, item, sub, idx, ret>>

\* repeat: let item = try_result!(parse(buf));
repeat_parse ==
    /\ pc = "repeat_parse"
    /\ ParseItem("repeat_combine")

\* repeat: match combine(item) { .. }
repeat_combine ==
    /\ pc = "repeat_combine"
    /\ CombineItem("repeat_parse")

\* at_least_once: match try_result!(parse(buf)) { Err(err) => return
\* Err(error(err)), Ok(item) => .. }
FirstItem ==
    /\ \E s \in ParseSteps(call.pk, buf) :
        /\ buf' = s.buf
        /\ IF try_result_returns(s.out)
           THEN /\ res' = NotReady
                /\ pc' = "group_match"
                /\ obs' = ObsItem(s)
                /\ UNCHANGED item
           ELSE IF try_result(s.out).kind = "Err"
           THEN /\ res' = Err(call.error[try_result(s.out).val])
                /\ pc' = "group_match"
                /\ obs' = [ObsItem(s) EXCEPT !.nE = @ + 1,
                                              !.errArg = try_result(s.out).val]
                /\ UNCHANGED item
           ELSE /\ item' = try_result(s.out)
                /\ pc' = "at_least_once_first_combine"
                /\ obs' = ObsItem(s)
                /\ UNCHANGED res
    /\ UNCHANGED <<orig_buf, call, sub, idx, ret, acc>>

\* Fault: the first element treated like any other, as repeat does.
at_least_once_first_as_repeat ==
    /\ pc = "at_least_once_first"
    /\ ParseItem("at_least_once_first_combine")

at_least_once_first ==
    /\ pc = "at_least_once_first"
    /\ FirstItem

\* Fault: the first element accepted without being handed to combine.
at_least_once_first_skips_combine ==
    /\ pc = "at_least_once_first_combine"
    /\ pc' = "at_least_once_parse"
    /\ UNCHANGED <<buf, orig_buf, call, res, item, sub, idx, ret, acc, obs>>

\* at_least_once: Ok(item) => match combine(Ok(item)) { .. }
at_least_once_first_combine ==
    /\ pc = "at_least_once_first_combine"
    /\ CombineItem("at_least_once_parse")

\* Fault: the loop treating every element like the first one.
at_least_once_parse_adapts ==
    /\ pc = "at_least_once_parse"
    /\ obs.nP < MaxIter
    /\ FirstItem

\* at_least_once, the loop: let item = try_result!(parse(buf));
at_least_once_parse ==
    /\ pc = "at_least_once_parse"
    /\ ParseItem("at_least_once_combine")

\* at_least_once, the loop: match combine(item) { .. }
at_least_once_combine ==
    /\ pc = "at_least_once_combine"
    /\ CombineItem("at_least_once_parse")

--------------------------------------------------------------------------
\* Concatenation as in the module docs: group(buf, |buf| { try_ready!(rule1
\* (buf)); try_ready!(rule2(buf)); ..; Ok(Async::Ready(Res)) }).  A
\* sub-rule is a plain parsing closure ("leaf"), a rule that is itself a
\* group call, or optional(buf, rule).
RuleKinds == {"leaf", "group", "optional"}
RuleLists == UNION {[1..n -> RuleKinds] : n \in 2..MaxRules}

call_concat ==
    \E rules \in RuleLists :
        /\ pc = "idle"
        /\ call' = [NoCall EXCEPT !.fn = "concat", !.rules = rules]
        /\ pc' = "concat_rule"
        /\ obs' = [NoObs EXCEPT !.entry = buf]
        /\ acc' = <<>>
        /\ idx' = 1
        /\ Clone
        /\ UNCHANGED <<buf, res, item, sub, ret>>

\* The closure calls its next sub-rule.
concat_rule ==
    /\ pc = "concat_rule"
    /\ LET kind == call.rules[idx] IN
        CASE kind = "leaf" ->
                /\ \E s \in ParseSteps(call.pk, buf) :
                    /\ buf' = s.buf
                    /\ sub' = s.out
                    /\ obs' = ObsSub([ObsParse(s) EXCEPT !.nR = @ + 1], s.out)
                /\ pc' = "concat_try"
                /\ UNCHANGED orig_buf
          [] kind = "group" ->
                /\ Clone
                /\ pc' = "group_parse"
                /\ obs' = [obs EXCEPT !.nR = @ + 1]
                /\ UNCHANGED <<buf, sub>>
          [] kind = "optional" ->
                /\ pc' = "optional_parse"
                /\ obs' = [obs EXCEPT !.nR = @ + 1]
                /\ UNCHANGED <<buf, sub, orig_buf>>
    /\ UNCHANGED <<call, res, item, idx, ret, acc>>

\* try_ready!(rule(buf)) on the sub-rule's outcome, then the next sub-rule
\* or the closing Ok(Async::Ready(Res)).
concat_try ==
    /\ pc = "concat_try"
    /\ IF try_ready_returns(sub)
       THEN /\ res' = sub
            /\ pc' = "group_match"
            /\ UNCHANGED <<idx, obs>>
       ELSE /\ idx' = idx + 1
            /\ obs' = [obs EXCEPT !.consumed = @ \/ buf # obs.entry]
            /\ IF idx = Len(call.rules)
               THEN /\ res' = Ready("Res")
                    /\ pc' = "group_match"
               ELSE /\ pc' = "concat_rule"
                    /\ UNCHANGED res
    /\ UNCHANGED <<buf, orig_buf, call, item, sub, ret, acc>>

--------------------------------------------------------------------------
\* The driver, after a repetition returned NotReady: it appends the bytes
\* that arrived and makes the identical call again on the cursor as the call
\* left it.  The locals of the attempt before are gone; a vector the rule
\* creates is new, one the caller holds is as the closure left it.  Retries
\* are followed for the deterministic single-digit rule.
Retry ==
    /\ pc = "done"
    /\ call.fn \in {"repeat", "at_least_once"}
    /\ call.pk = "digit"
    /\ ret = NotReady
    /\ obs.attempt < MaxAttempts
    /\ \E more \in Buffers :
        /\ more # <<>>
        /\ Len(buf) + Len(more) <= MaxLen
        /\ buf' = buf \o more
    /\ acc' = IF call.ck = "accumulate_kept" THEN acc ELSE <<>>
    /\ obs' = [NoObs EXCEPT !.entry = buf', !.attempt = obs.attempt + 1,
                            !.prev = obs.entry, !.carried = acc']
    /\ orig_buf' = Append(orig_buf, buf')
    /\ pc' = IF call.fn = "repeat" THEN "repeat_parse"
             ELSE "at_least_once_first"
    /\ res' = NoOutcome
    /\ item' = NoOutcome
    /\ ret' = NoOutcome
    /\ UNCHANGED <<call, sub, idx>>

--------------------------------------------------------------------------
Next ==
    \/ call_group
    \/ call_opt_group
    \/ call_repeat
    \/ call_at_least_once
    \/ call_optional
    \/ call_concat
    \/ group_parse
    \/ group_match
    \/ opt_group_parse
    \/ opt_group_match
    \/ optional_parse
    \/ repeat_parse
    \/ repeat_combine
    \/ at_least_once_first
    \/ at_least_once_first_combine
    \/ at_least_once_parse
    \/ at_least_once_combine
    \/ concat_rule
    \/ concat_try
    \/ Retry

Spec == Init /\ [][Next]_vars

\* The repetitions whose element parser drains on success, with the driver
\* retrying them.
DrainingNext ==
    \/ call_repeat /\ call'.pk \in Draining
    \/ call_at_least_once /\ call'.pk \in Draining
    \/ repeat_parse
    \/ repeat_combine
    \/ at_least_once_first
    \/ at_least_once_first_combine
    \/ at_least_once_parse
    \/ at_least_once_combine
    \/ group_match
    \/ Retry

\* A call, once made, runs on: the functions are straight-line code and a
\* loop, and nothing but their own statements decides the next step.
FairSpec == Init /\ [][DrainingNext]_vars /\ WF_vars(DrainingNext)

--------------------------------------------------------------------------
Returned(fn) == pc = "done" /\ call.fn = fn

\* C1: group invokes parse exactly once and returns its outcome unchanged;
\* on NotReady or Err the cursor is back at its state at entry, on Ready
\* it is the state parse left.
C1_group ==
    Returned("group") =>
        /\ obs.nP = 1
        /\ ret = obs.lastP
        /\ ret.kind \in {"NotReady", "Err"} => buf = obs.entry
        /\ ret.kind = "Ready" => buf = obs.lastPbuf

\* group returned Err after parse had moved the cursor.
C1_witness ==
    /\ Returned("group")
    /\ call.pk = "any"
    /\ ret.kind = "Err"
    /\ obs.lastPbuf # obs.entry
    /\ buf = obs.entry

\* C2: opt_group returns parse's outcome unchanged and keeps the cursor as
\* parse left it for Ready(Some(_)) only; for Ready(None), NotReady and Err
\* the cursor is back at its state at entry.
C2_opt_group ==
    Returned("opt_group") =>
        /\ obs.nP = 1
        /\ ret = obs.lastP
        /\ IF ret.kind = "Ready" /\ ret.opt = "Some"
           THEN buf = obs.lastPbuf
           ELSE buf = obs.entry

\* opt_group returned Ready(None) after parse had moved the cursor.
C2_witness ==
    /\ Returned("opt_group")
    /\ ret = ReadyNone
    /\ obs.lastPbuf # obs.entry
    /\ buf = obs.entry

\* C3: when an invocation of parse within repeat, the first or a later
\* one, is NotReady, repeat returns NotReady, combine is not invoked for
\* that outcome, and the cursor is back at its state at entry to repeat.
C3_repeat_not_ready ==
    (Returned("repeat") /\ obs.lastP.kind = "NotReady") =>
        /\ ret = NotReady
        /\ obs.nC = obs.nP - 1
        /\ buf = obs.entry

\* repeat returned NotReady from a later invocation, after elements had
\* been drained and accepted.
C3_witness ==
    /\ Returned("repeat")
    /\ obs.lastP.kind = "NotReady"
    /\ obs.nP >= 2
    /\ obs.consumed
    /\ obs.lastPbuf # obs.entry
    /\ buf = obs.entry

\* The number of leading digits of b.
DigitRun(b) ==
    CHOOSE k \in 0..Len(b) :
        /\ \A i \in 1..k : b[i] \in Digit
        /\ k = Len(b) \/ b[k + 1] \notin Digit

\* C4: repeat with the single-digit rule and the accumulating combine
\* closure: when the rule succeeds N times and then fails, repeat returns
\* Ready, the vector holds exactly the N leading digits in order, and the
\* cursor is past those N bytes and no further.
C4_repeat_accumulates ==
    (/\ Returned("repeat")
     /\ call.pk = "digit"
     /\ call.ck = "accumulate"
     /\ obs.lastP.kind = "Err") =>
        LET n == DigitRun(obs.entry) IN
            /\ ret = Ready("()")
            /\ acc = SubSeq(obs.entry, 1, n)
            /\ buf = SubSeq(obs.entry, n + 1, Len(obs.entry))
            /\ obs.nP = n + 1
            /\ obs.nC = n + 1

\* Digits over "12a": the vector is ['1', '2'], the cursor is before 'a'.
C4_witness ==
    /\ Returned("repeat")
    /\ call.pk = "digit"
    /\ call.ck = "accumulate"
    /\ obs.entry = <<"1", "2", "a">>
    /\ ret = Ready("()")
    /\ acc = <<"1", "2">>
    /\ buf = <<"a">>

\* C5: when parse fails on its first invocation within repeat, draining
\* nothing, the error goes to combine, and if combine answers Ready then
\* repeat returns that Ready with the cursor equal to its state at entry
\* (with the accumulating closure: an empty vector).
C5_repeat_zero ==
    (/\ Returned("repeat")
     /\ obs.nP = 1
     /\ obs.lastP.kind = "Err"
     /\ obs.lastPbuf = obs.entry) =>
        /\ obs.nC = 1
        /\ obs.lastArg = obs.lastP
        /\ obs.lastC.kind = "Ready" => (ret = obs.lastC /\ buf = obs.entry)
        /\ call.ck = "accumulate" => (ret = Ready("()") /\ acc = <<>>)

\* Digits over a buffer that starts with 'a': Ready, nothing accumulated,
\* the cursor where it was.
C5_witness ==
    /\ Returned("repeat")
    /\ call.pk = "digit"
    /\ call.ck = "accumulate"
    /\ Len(obs.entry) > 0
    /\ obs.entry[1] = "a"
    /\ obs.nP = 1
    /\ ret = Ready("()")
    /\ acc = <<>>
    /\ buf = obs.entry

\* C6: when the first invocation of parse within at_least_once fails with
\* e, the call returns Err(error(e)), combine is never invoked, parse is
\* not invoked again, and the cursor is back at its state at entry.
C6_at_least_once_first_fails ==
    (Returned("at_least_once") /\ obs.firstP.kind = "Err") =>
        /\ ret = Err(call.error[obs.firstP.val])
        /\ obs.nE = 1
        /\ obs.errArg = obs.firstP.val
        /\ obs.nC = 0
        /\ obs.nP = 1
        /\ buf = obs.entry

\* at_least_once returned the adapted error after parse had moved the
\* cursor and failed.
C6_witness ==
    /\ Returned("at_least_once")
    /\ obs.firstP = Err("e1")
    /\ ret = Err("g1")
    /\ obs.lastPbuf # obs.entry
    /\ buf = obs.entry

\* C7: optional over a parsing closure that drains on success only: Ready
\* (v) becomes Ready(Some(v)) with the cursor as the closure left it, Err
\* becomes Ready(None) and NotReady stays NotReady, both with the cursor
\* unchanged; optional never returns Err.
C7_optional ==
    (/\ Returned("optional")
     /\ obs.lastP.kind # "Ready" => obs.lastPbuf = obs.entry) =>
        /\ obs.nP = 1
        /\ ret.kind # "Err"
        /\ obs.lastP.kind = "Ready" =>
                (ret = ReadySome(obs.lastP.val) /\ buf = obs.lastPbuf)
        /\ obs.lastP.kind = "Err" => (ret = ReadyNone /\ buf = obs.entry)
        /\ obs.lastP.kind = "NotReady" => (ret = NotReady /\ buf = obs.entry)

\* optional turned a failure of a rule-abiding closure into Ready(None).
C7_witness ==
    /\ Returned("optional")
    /\ call.pk = "obeying"
    /\ obs.lastP.kind = "Err"
    /\ ret = ReadyNone
    /\ Len(obs.entry) > 0
    /\ buf = obs.entry

\* C8: repeat returns Err(f) only when combine returned Err(f); an Err(e)
\* of parse is never returned as such but handed to combine as Err(e), and
\* repeat then returns what combine returned.
C8_repeat_errors ==
    Returned("repeat") =>
        /\ ret.kind = "Err" => (obs.nC >= 1 /\ obs.lastC = ret)
        /\ obs.lastP.kind = "Err" =>
                /\ obs.nC = obs.nP
                /\ obs.lastArg = obs.lastP
                /\ ret = obs.lastC

\* parse failed with e2 on a later element and repeat returned the Ready
\* combine made of it.
C8_witness ==
    /\ Returned("repeat")
    /\ call.ck = "any"
    /\ obs.nP >= 2
    /\ obs.lastP = Err("e2")
    /\ obs.lastArg = Err("e2")
    /\ ret = Ready("s")

\* C9: at_least_once applies the error adapter at most once, and to a
\* failure of the first invocation of parse only; an Err(e) of a later
\* invocation is handed to combine as Err(e), and the call returns what
\* combine returned.
C9_at_least_once_later_errors ==
    call.fn = "at_least_once" =>
        /\ obs.nE <= 1
        /\ obs.nE = 1 =>
                (obs.nP = 1 /\ obs.firstP.kind = "Err"
                    /\ obs.errArg = obs.firstP.val)
        /\ (pc = "done" /\ obs.nP >= 2 /\ obs.lastP.kind = "Err") =>
                /\ obs.nE = 0
                /\ obs.nC = obs.nP
                /\ obs.lastArg = obs.lastP
                /\ ret = obs.lastC

\* A later element failed, combine was handed the error and ended the
\* call with its own error.
C9_witness ==
    /\ Returned("at_least_once")
    /\ obs.nP >= 2
    /\ obs.lastP = Err("e1")
    /\ obs.lastArg = Err("e1")
    /\ obs.nE = 0
    /\ ret = Err("f2")

\* C10: a concatenation under group: when a sub-rule is NotReady or Err
\* after the ones before it completed, no later sub-rule is invoked, the
\* rule returns that sub-rule's outcome, and the cursor is back at its
\* state at entry to the outer group.
C10_concat_atomic ==
    (Returned("concat") /\ obs.failedAt > 0) =>
        /\ ret = obs.failOut
        /\ obs.nR = obs.failedAt
        /\ buf = obs.entry

\* The second sub-rule failed after the first, itself a group call, had
\* completed and moved the cursor.
C10_witness ==
    /\ Returned("concat")
    /\ call.rules[1] = "group"
    /\ obs.failedAt = 2
    /\ obs.consumed
    /\ ret.kind = "Err"
    /\ buf = obs.entry

\* C12: whatever the closures do to the cursor, a call of group, repeat or
\* at_least_once that returns NotReady or Err, and a call of opt_group that
\* returns anything but Ready(Some(_)), leaves the cursor at its state at
\* entry; optional gives no such guarantee.
C12_rewind_safety ==
    /\ (pc = "done" /\ call.fn \in {"group", "repeat", "at_least_once"}
            /\ ret.kind \in {"NotReady", "Err"}) => buf = obs.entry
    /\ (Returned("opt_group") /\ ~(ret.kind = "Ready" /\ ret.opt = "Some"))
            => buf = obs.entry

\* combine returned Err after elements had been drained and accepted, and
\* the whole repetition was rewound.
C12_witness ==
    /\ Returned("repeat")
    /\ call.pk = "any"
    /\ obs.nC >= 2
    /\ obs.consumed
    /\ obs.lastC.kind = "Err"
    /\ ret = obs.lastC
    /\ obs.lastPbuf # obs.entry
    /\ buf = obs.entry

\* C13: optional invokes parse once and never touches the cursor itself:
\* on return the cursor is as parse left it, whatever the outcome; when
\* optional is the last sub-rule of a concatenation that completes, the
\* enclosing group keeps that cursor too.
C13_optional_no_rewind ==
    /\ Returned("optional") =>
            /\ obs.nP = 1
            /\ buf = obs.lastPbuf
            /\ (obs.lastP.kind = "Err" /\ obs.lastPmoved) =>
                    (ret = ReadyNone /\ buf # obs.entry)
    /\ (Returned("concat") /\ ret.kind = "Ready"
            /\ call.rules[Len(call.rules)] = "optional") =>
            buf = obs.lastPbuf

\* parse moved the cursor and failed inside optional, the concatenation
\* completed, and the moved cursor is what the outer group left.
C13_witness ==
    /\ Returned("concat")
    /\ call.rules[Len(call.rules)] = "optional"
    /\ obs.lastP.kind = "Err"
    /\ obs.lastPmoved
    /\ sub = ReadyNone
    /\ ret.kind = "Ready"
    /\ buf = obs.lastPbuf
    /\ buf # obs.entry

\* C14 as stated: when parse fails on its first invocation within repeat
\* and combine answers Ready, the cursor is at its state at entry,
\* whatever parse did to it.
C14_as_stated ==
    (/\ Returned("repeat")
     /\ obs.nP = 1
     /\ obs.lastP.kind = "Err"
     /\ ret.kind = "Ready") => buf = obs.entry

\* C14, amended: in that case group restores nothing: the cursor is as the
\* failing invocation of parse left it, which is the state at entry exactly
\* when that invocation did not change the cursor.
C14_repeat_zero_keeps_parse_cursor ==
    (/\ Returned("repeat")
     /\ obs.nP = 1
     /\ obs.lastP.kind = "Err"
     /\ ret.kind = "Ready") =>
        /\ buf = obs.lastPbuf
        /\ (buf = obs.entry) <=> ~obs.lastPmoved

\* parse moved the cursor, failed at once, combine answered Ready and the
\* moved cursor was kept.
C14_witness ==
    /\ Returned("repeat")
    /\ obs.nP = 1
    /\ obs.lastP.kind = "Err"
    /\ obs.lastPmoved
    /\ ret.kind = "Ready"
    /\ buf # obs.entry

\* A step of a running repeat call that invokes parse, or combine.
InvokesParse == obs'.nP = obs.nP + 1
InvokesCombine == obs'.nC = obs.nC + 1

\* C16: in repeat, parse and combine are invoked in turn, parse first;
\* after a Ready(v) or Err(e) of parse the next thing invoked is combine,
\* once, with Ok(v) or Err(e) (the accumulating closure appends v); after a
\* NotReady of parse nothing is invoked; parse is invoked again exactly
\* after combine returned NotReady, and after combine returned Ready or Err
\* nothing is invoked any more.
C16_loop_protocol ==
    [][(call.fn = "repeat" /\ call'.fn = "repeat" /\ pc # "done") =>
        /\ ~(InvokesParse /\ InvokesCombine)
        /\ InvokesParse =>
            /\ obs.nC = obs.nP
            /\ obs.nP = 0 \/ obs.lastC.kind = "NotReady"
        /\ InvokesCombine =>
            /\ obs.nP = obs.nC + 1
            /\ obs.lastP.kind \in {"Ready", "Err"}
            /\ obs'.lastArg = IF obs.lastP.kind = "Ready"
                              THEN Ok(obs.lastP.val)
                              ELSE Err(obs.lastP.val)
            /\ (call.ck = "accumulate" /\ obs.lastP.kind = "Ready") =>
                    acc' = Append(acc, obs.lastP.val)
        /\ (obs.nP = obs.nC + 1 /\ obs.lastP.kind \in {"Ready", "Err"}) =>
                InvokesCombine
        /\ (obs.nP = obs.nC + 1 /\ obs.lastP.kind = "NotReady") =>
                ~(InvokesParse \/ InvokesCombine)
        /\ (obs.nC >= 1 /\ obs.nC = obs.nP /\ obs.lastC.kind = "NotReady") =>
                InvokesParse
        /\ (obs.nC >= 1 /\ obs.nC = obs.nP /\ obs.lastC.kind # "NotReady") =>
                ~(InvokesParse \/ InvokesCombine)
    ]_vars

\* Three elements went round the loop of repeat; combine ended it with Err
\* on the third.
C16_witness ==
    /\ Returned("repeat")
    /\ call.ck = "any"
    /\ obs.nP = 3
    /\ obs.nC = 3
    /\ obs.lastP = Ready("v")
    /\ obs.lastArg = Ok("v")
    /\ obs.lastC = Err("f1")
    /\ ret = Err("f1")

Repetition == call.fn \in {"repeat", "at_least_once"}

\* C17: a repetition whose element parser drains at least one byte per
\* success, with a combine closure that never goes on when given Err, makes
\* at most n + 1 invocations of parse over n bytes and never stops short
\* of returning; and a repetition returns in no other way than after a
\* NotReady of parse, a Ready or Err of combine, or a failed first element
\* of at_least_once.
C17_bound ==
    /\ (Repetition /\ call.pk \in Draining) =>
            /\ obs.nP <= Len(obs.entry) + 1
            /\ pc = "done" \/ ENABLED DrainingNext
    /\ (Repetition /\ pc = "done") =>
            \/ obs.lastP.kind = "NotReady"
            \/ obs.nC = obs.nP /\ obs.lastC.kind \in {"Ready", "Err"}
            \/ call.fn = "at_least_once" /\ obs.nE = 1

C17_termination ==
    /\ []C17_bound
    /\ (Repetition /\ call.pk \in Draining) ~> (pc = "done")

\* A repetition over three bytes returned after its fourth invocation of
\* parse.
C17_witness ==
    /\ Returned("repeat")
    /\ call.pk = "progress"
    /\ Len(obs.entry) = 3
    /\ obs.nP = 4
    /\ obs.nC = 4
    /\ obs.lastP.kind = "Err"

--------------------------------------------------------------------------
\* One call of a repetition over the single-digit rule, as a function of
\* the cursor: what it returns, the cursor and the vector it leaves.

RECURSIVE repeat_loop(_, _, _, _)
\* The loop of repeat, run as group's closure on a cursor that was orig.
repeat_loop(ck, orig, b, vec) ==
    LET s == digit(b) IN
    IF try_result_returns(s.out)
    THEN [ret |-> NotReady, buf |-> group(s.buf, orig, NotReady), acc |-> vec]
    ELSE LET c == CHOOSE c \in CombineSteps(ck, try_result(s.out), vec) : TRUE
         IN  IF c.out.kind = "NotReady"
             THEN repeat_loop(ck, orig, s.buf, c.acc)
             ELSE [ret |-> c.out, buf |-> group(s.buf, orig, c.out),
                   acc |-> c.acc]

\* repeat(buf, digit, combine) with an empty vector.
repeat(ck, b) == repeat_loop(ck, b, b, <<>>)

\* at_least_once(buf, digit, combine, error) with an empty vector.
at_least_once(ck, error, b) ==
    LET s == digit(b) IN
    IF s.out.kind = "NotReady"
    THEN [ret |-> NotReady, buf |-> group(s.buf, b, NotReady), acc |-> <<>>]
    ELSE IF s.out.kind = "Err"
    THEN [ret |-> Err(error[s.out.val]),
          buf |-> group(s.buf, b, Err(error[s.out.val])), acc |-> <<>>]
    ELSE LET c == CHOOSE c \in CombineSteps(ck, Ok(s.out.val), <<>>) : TRUE
         IN  IF c.out.kind = "NotReady"
             THEN repeat_loop(ck, b, s.buf, c.acc)
             ELSE [ret |-> c.out, buf |-> group(s.buf, b, c.out),
                   acc |-> c.acc]

\* The call in hand, made once on cursor b.
Direct(b) ==
    IF call.fn = "repeat" THEN repeat(call.ck, b)
    ELSE at_least_once(call.ck, call.error, b)

IsPrefix(p, b) == Len(p) <= Len(b) /\ SubSeq(b, 1, Len(p)) = p

\* A repetition over the single-digit rule whose closure starts each
\* attempt on a new vector.
FreshDigits ==
    /\ Repetition
    /\ call.pk = "digit"
    /\ call.ck \in {"accumulate", "count"}

\* C11: with the single-digit rule and a combine closure whose vector is new
\* on each attempt, a retry after NotReady begins on the cursor the attempt
\* before began on, with the new bytes appended, and with nothing parsed or
\* accumulated yet; and what any attempt returns, the cursor and the vector
\* it leaves are those of one call made on that attempt's whole input.
C11_retry_equals_direct ==
    FreshDigits =>
        /\ obs.attempt > 1 =>
                /\ IsPrefix(obs.prev, obs.entry)
                /\ Len(obs.prev) < Len(obs.entry)
                /\ obs.carried = <<>>
                /\ Direct(obs.prev).ret = NotReady
                /\ (obs.nP = 0 /\ pc # "done") =>
                        (buf = obs.entry /\ acc = <<>> /\ obs.nC = 0)
        /\ pc = "done" =>
                /\ ret = Direct(obs.entry).ret
                /\ buf = Direct(obs.entry).buf
                /\ acc = Direct(obs.entry).acc
                /\ obs.firstP = digit(obs.entry).out

\* Digits over "12": NotReady; 'a' arrives; the retry over "12a" is Ready
\* with ['1', '2'] and the cursor before 'a', having parsed '1' and '2'
\* anew.
C11_witness ==
    /\ Returned("repeat")
    /\ call.pk = "digit"
    /\ call.ck = "accumulate"
    /\ obs.attempt = 2
    /\ obs.prev = <<"1", "2">>
    /\ obs.entry = <<"1", "2", "a">>
    /\ obs.nP = 3
    /\ ret = Ready("()")
    /\ acc = <<"1", "2">>
    /\ buf = <<"a">>

\* A repetition over the single-digit rule with a closure that pushes each
\* accepted element to its vector.
PushingDigits ==
    /\ Repetition
    /\ call.pk = "digit"
    /\ call.ck \in {"accumulate", "accumulate_kept", "count"}

\* C18: when a repetition over the single-digit rule returns NotReady or Err
\* after k elements were accepted, combine was invoked for each of them, the
\* cursor is back at its state at entry, and the k elements pushed are still
\* in the vector; with a vector the caller holds across attempts, the
\* retry's vector then holds the elements of the attempt before followed by
\* the elements of the retry, which parsed them again.
C18_rewind_restores_cursor_only ==
    PushingDigits =>
        /\ (pc = "done" /\ ret.kind \in {"NotReady", "Err"}) =>
                LET k == IF obs.nP = 0 THEN 0 ELSE obs.nP - 1 IN
                    /\ buf = obs.entry
                    /\ obs.nC >= k
                    /\ k = DigitRun(obs.entry)
                    /\ acc = obs.carried \o SubSeq(obs.entry, 1, k)
        /\ (call.ck = "accumulate_kept" /\ obs.attempt > 1) =>
                /\ IsPrefix(obs.prev, obs.entry)
                /\ Len(obs.carried) >= Len(obs.prev)
                /\ SubSeq(obs.carried, Len(obs.carried) - Len(obs.prev) + 1,
                          Len(obs.carried)) = obs.prev
                /\ (pc = "done" /\ ret.kind = "Ready") =>
                        acc = obs.carried
                                \o SubSeq(obs.entry, 1, DigitRun(obs.entry))

\* Digits over "12" with a vector the caller holds: NotReady with the
\* cursor back on "12" and ['1', '2'] pushed; after 'a' arrives the retry
\* is Ready with ['1', '2', '1', '2'].
C18_witness ==
    /\ Returned("repeat")
    /\ call.ck = "accumulate_kept"
    /\ obs.attempt = 2
    /\ obs.prev = <<"1", "2">>
    /\ obs.carried = <<"1", "2">>
    /\ obs.entry = <<"1", "2", "a">>
    /\ ret = Ready("()")
    /\ acc = <<"1", "2", "1", "2">>
    /\ buf = <<"a">>

\* The places of at_least_once where it invokes parse, and where it invokes
\* combine: both of the first element and of the loop.
AtParse == {"at_least_once_first", "at_least_once_parse"}
AtCombine == {"at_least_once_first_combine", "at_least_once_combine"}

\* A step of at_least_once that is the step repeat takes at the same place
\* of its loop on the same cursor, vector and item, with the closures
\* answering the same.
StepOfRepeat ==
    \/ pc \in AtParse /\ \E t \in AtCombine : ParseItem(t)
    \/ pc \in AtCombine /\ \E t \in AtParse : CombineItem(t)
    \/ pc = "group_match" /\ group_match

\* An at_least_once call over the single-digit rule returned what repeat
\* returns on the same cursor with the same closure, and left what repeat
\* leaves.
C15_same_result ==
    (/\ Returned("at_least_once")
     /\ FreshDigits
     /\ obs.firstP.kind # "Err") =>
        /\ ret = repeat(call.ck, obs.entry).ret
        /\ buf = repeat(call.ck, obs.entry).buf
        /\ acc = repeat(call.ck, obs.entry).acc
        /\ obs.nE = 0

\* C15: at_least_once is repeat unless the first element fails.  Entered on
\* the same cursor, it starts as repeat starts; as long as the first
\* invocation of parse did not yield Err, each of its steps is the step of
\* repeat's loop (the same invocation of parse or combine with the same
\* argument, the same effect on cursor and outcome) and the error adapter
\* is never invoked; so with the single-digit rule it returns and leaves
\* what repeat does.
C15_at_least_once_as_repeat ==
    /\ []C15_same_result
    /\ [][(call'.fn = "at_least_once" /\ pc # "done"
                /\ obs'.firstP.kind # "Err") =>
            /\ obs'.nE = 0
            /\ pc = "idle" =>
                    /\ pc' = "at_least_once_first"
                    /\ buf' = buf
                    /\ orig_buf' = <<buf>>
                    /\ acc' = <<>>
                    /\ obs' = [NoObs EXCEPT !.entry = buf]
            /\ pc # "idle" => StepOfRepeat
         ]_vars

\* at_least_once with arbitrary closures accepted a first and a second
\* element and returned combine's Ready, the adapter never invoked.
C15_witness ==
    /\ Returned("at_least_once")
    /\ call.pk = "any"
    /\ obs.firstP.kind = "Ready"
    /\ obs.nP = 2
    /\ obs.nC = 2
    /\ obs.nE = 0
    /\ obs.lastP.kind = "Ready"
    /\ ret.kind = "Ready"
    /\ ret = obs.lastC
    /\ buf = obs.lastPbuf

====
